---- MODULE Spec2Model ----
(***************************************************************************)
(* Model of examples/notebooks/WWW/optimal_power_gaussian_channel_BV4.62:  *)
(* the function optimal_power(n, a_val, b_val, P_tot, W_tot) and the cell  *)
(* that calls it and prints the result.                                    *)
(*                                                                         *)
(* Numbers.  Reals are fixed-point integers:                               *)
(*   a coefficient alpha_i or beta_i is  a / CoefDen,                      *)
(*   a total or an allocation P_i, W_i is  p / TotDen,                     *)
(*   a logarithm is an integer count of 1/Scale,                           *)
(* so an objective value or a utility is an integer count of               *)
(* 1 / (CoefDen * CoefDen * TotDen * Scale).                               *)
(* The external solver searches the grid of allocations that are whole     *)
(* multiples of 1/TotDen.                                                  *)
(***************************************************************************)
EXTENDS Integers, Sequences, FiniteSets

VARIABLES
    pc,        \* position: "l58","l59","l84","l86","done","raised","printed"
    nArg,      \* the argument passed for n
    a_val,     \* the argument a_val (numerators over CoefDen)
    b_val,     \* the argument b_val (numerators over CoefDen)
    P_tot,     \* the argument P_tot (numerator over TotDen)
    W_tot,     \* the argument W_tot (numerator over TotDen)
    n,         \* the local n of optimal_power
    prob,      \* the cvxpy problem object with P.value and W.value
    solveCalls,\* number of calls of prob.solve()
    stdout,    \* what has been written to standard output, in order
    ret        \* how the call ended: nothing yet, a returned tuple, an exception

vars == <<pc, nArg, a_val, b_val, P_tot, W_tot, n, prob, solveCalls, stdout, ret>>

----------------------------------------------------------------------------
(* Bounds of the model *)

MaxLen == 2
MaxCoef == 1
MaxTot == 2

(* Units *)

CoefDen == 5
TotDen == 2
Scale == 1000000

(* The worked example of the driver cell *)

ExampleN == 5

----------------------------------------------------------------------------
(* Helpers *)

RECURSIVE Sum(_)
Sum(s) == IF Len(s) = 0 THEN 0 ELSE Head(s) + Sum(Tail(s))

Max(x, y) == IF x >= y THEN x ELSE y

SetMin(S) == CHOOSE x \in S : \A y \in S : x <= y

SetMax(S) == CHOOSE x \in S : \A y \in S : x >= y

Vectors(len, Vals) == [1..len -> Vals]

VectorsUpTo(maxLen, Vals) == UNION { Vectors(len, Vals) : len \in 0..maxLen }

----------------------------------------------------------------------------
(* Fixed-point natural logarithm, as the library's log *)

\* x * y / Scale for 0 <= x, y <= Scale, without leaving 32 bits
MulFix(x, y) == (x * (y \div 1000)) \div 1000 + (x * (y % 1000)) \div Scale

RECURSIVE AtanhSeries(_, _, _)
AtanhSeries(term, z2, k) ==
    IF term = 0 THEN 0
    ELSE term \div (2 * k + 1) + AtanhSeries(MulFix(term, z2), z2, k + 1)

\* Scale * ln(num/den) for num >= den > 0:  ln x = 2 atanh((x-1)/(x+1))
LnFix(num, den) ==
    LET z == ((num - den) * Scale) \div (num + den)
    IN  2 * AtanhSeries(z, MulFix(z, z), 0)

\* Scale * ln(x/y) for x, y > 0
Log(x, y) == IF x >= y THEN LnFix(x, y) ELSE 0 - LnFix(y, x)

\* the domain of kl_div
KlDivDefined(x, y) == (x > 0 /\ y > 0) \/ (x = 0 /\ y >= 0)

\* Scale * kl_div(x, y),  kl_div(x, y) = x log(x/y) - x + y,  kl_div(0, y) = y
kl_div(x, y) ==
    IF x > 0 THEN x * Log(x, y) - x * Scale + y * Scale
    ELSE y * Scale

----------------------------------------------------------------------------
(* Values of the Python program *)

None == [tag |-> "none", v |-> 0]
NaN == [tag |-> "nan", v |-> 0]
PosInf == [tag |-> "inf", v |-> 0]
NegInf == [tag |-> "neginf", v |-> 0]
Num(x) == [tag |-> "num", v |-> x]

NoArray == [tag |-> "none", v |-> <<>>]
NaNArray == [tag |-> "nan", v |-> <<>>]
Array(s) == [tag |-> "array", v |-> s]

NoProblem ==
    [built |-> FALSE, shape |-> 0, alpha |-> <<>>, beta |-> <<>>,
     P_tot |-> 0, W_tot |-> 0, sense |-> "none",
     status |-> "none", value |-> None, P |-> NoArray, W |-> NoArray]

NotReturned ==
    [kind |-> "none", status |-> "none", utility |-> None,
     P |-> NoArray, W |-> NoArray]

Returned(status, utility, P, W) ==
    [kind |-> "return", status |-> status, utility |-> utility, P |-> P, W |-> W]

Raised(exc) ==
    [kind |-> "raise", status |-> exc, utility |-> None, P |-> NoArray, W |-> NoArray]

----------------------------------------------------------------------------
(* optimal_power: the steps before the solve *)

\* faulty variant: line 58 left out, the passed n is used
LocalN_Passed(passed, a) == passed

\* n = len(a_val): the argument n is overwritten before it is read
LocalN(passed, a) == Len(a)

\* faulty variant: only a longer a_val is rejected
LengthsDiffer_OnlyLonger(nn, b) == nn > Len(b)

\* if n != len(b_val)
LengthsDiffer(nn, b) == nn # Len(b)

\* faulty variant: the message is not printed
MismatchOutput_Silent == << >>

\* print('alpha and beta vectors must have same length!')
MismatchOutput ==
    << [by |-> "optimal_power",
        text |-> "alpha and beta vectors must have same length!"] >>

\* return 'failed', np.nan, np.nan, np.nan
FailedResult == Returned("failed", NaN, NaNArray, NaNArray)

\* faulty variant: cp.Maximize(...)
ObjectiveSense_Maximize == "maximize"

\* cp.Minimize(...)
ObjectiveSense == "minimize"

\* faulty variant: beta left out of the second argument of kl_div
Rate_BetaOutside(a, b, p, w) ==
    kl_div(a * CoefDen * w, a * (CoefDen * w + CoefDen * p)) - (a * b * p) * Scale

\* One entry of R at the point (p, w):
\*   kl_div(alpha*W, alpha*(W + beta*P)) - alpha*beta*P
\* in units of 1/(CoefDen*CoefDen*TotDen*Scale).
Rate(a, b, p, w) ==
    kl_div(a * CoefDen * w, a * (CoefDen * w + b * p)) - (a * b * p) * Scale

\* whether kl_div is defined at (p, w)
RateDefined(a, b, p, w) ==
    KlDivDefined(a * CoefDen * w, a * (CoefDen * w + b * p))

RECURSIVE SumR(_, _, _, _, _)
SumR(alpha, beta, P, W, i) ==
    IF i = 0 THEN 0
    ELSE Rate(alpha[i], beta[i], P[i], W[i]) + SumR(alpha, beta, P, W, i - 1)

\* cp.sum(R) at the point (P, W)
Objective(pr, P, W) == SumR(pr.alpha, pr.beta, P, W, pr.shape)

\* P >= 0.0 and cp.sum(P) - P_tot == 0.0
ConstraintsP(pr, P) ==
    /\ \A i \in 1..pr.shape : P[i] >= 0
    /\ Sum(P) - pr.P_tot = 0

\* faulty variant: cp.sum(W) - P_tot == 0.0, the wrong total
ConstraintsW_WrongTotal(pr, W) ==
    /\ \A i \in 1..pr.shape : W[i] >= 0
    /\ Sum(W) - pr.P_tot = 0

\* W >= 0.0 and cp.sum(W) - W_tot == 0.0
ConstraintsW(pr, W) ==
    /\ \A i \in 1..pr.shape : W[i] >= 0
    /\ Sum(W) - pr.W_tot = 0

\* lines 63-83: the variables, parameters, objective, constraints and problem
Problem(nn, a, b, ptot, wtot) ==
    [built |-> TRUE, shape |-> nn, alpha |-> a, beta |-> b,
     P_tot |-> ptot, W_tot |-> wtot, sense |-> ObjectiveSense,
     status |-> "unsolved", value |-> None, P |-> NoArray, W |-> NoArray]

----------------------------------------------------------------------------
(* The external solver, on the grid *)

\* the grid values one entry of P or W ranges over
GridValues(pr) == (0 - 1) .. (Max(Max(pr.P_tot, pr.W_tot), 0) + 1)

FeasibleP(pr) == { P \in Vectors(pr.shape, GridValues(pr)) : ConstraintsP(pr, P) }

FeasibleW(pr) == { W \in Vectors(pr.shape, GridValues(pr)) : ConstraintsW(pr, W) }

\* the feasible points: the constraints hold and the objective is defined
Feasible(pr) ==
    { pw \in FeasibleP(pr) \X FeasibleW(pr) :
        \A i \in 1..pr.shape :
            RateDefined(pr.alpha[i], pr.beta[i], pw[1][i], pw[2][i]) }

\* the feasible points F, each with the value of the objective at it
Valued(pr, F) == { <<Objective(pr, pw[1], pw[2]), pw>> : pw \in F }

\* the optimal value among the valued points V, V not empty
OptimalValue(pr, V) ==
    LET vals == { vp[1] : vp \in V }
    IN  IF pr.sense = "minimize" THEN SetMin(vals) ELSE SetMax(vals)

\* the points among V that attain the value best
Optima(V, best) == { vp[2] : vp \in { q \in V : q[1] = best } }

\* prob.value of an infeasible problem
InfeasibleValue(pr) == IF pr.sense = "minimize" THEN PosInf ELSE NegInf

\* the problem after a solve that ends 'optimal': any optimum may be returned
SolvedOptimal(pr) ==
    LET F == Feasible(pr)
        V == Valued(pr, F)
        best == OptimalValue(pr, V)
    IN  IF F = {} THEN {}
        ELSE { [pr EXCEPT !.status = "optimal", !.value = Num(best),
                          !.P = Array(pw[1]), !.W = Array(pw[2])] :
               pw \in Optima(V, best) }

\* the problem after a solve that ends 'infeasible'
SolvedInfeasible(pr) ==
    IF Feasible(pr) # {} THEN {}
    ELSE { [pr EXCEPT !.status = "infeasible", !.value = InfeasibleValue(pr)] }

----------------------------------------------------------------------------
(* optimal_power: the return *)

\* faulty variant: prob.value returned without the minus sign
Negated_Forgotten(value) == value

\* -prob.value, for a value that can be negated
Negated(value) ==
    IF value.tag = "num" THEN Num(0 - value.v)
    ELSE IF value.tag = "inf" THEN NegInf
    ELSE PosInf

\* return prob.status, -prob.value, P.value, W.value
Result(pr) == Returned(pr.status, Negated(pr.value), pr.P, pr.W)

\* the four print calls of the calling cell
CallerOutput ==
    << [by |-> "caller", text |-> "Status: {}"],
       [by |-> "caller", text |-> "Optimal utility value = {:.4g}"],
       [by |-> "caller", text |-> "Optimal power level:\n{}"],
       [by |-> "caller", text |-> "Optimal bandwidth:\n{}"] >>

----------------------------------------------------------------------------
(* Inputs *)

Coefs == 1..MaxCoef

Totals == 0..MaxTot

\* the driver cell: n = 5, a_val = b_val = arange(10, n+10)/(1.0*n),
\* P_tot = 0.5, W_tot = 1.0
ExampleCoefs == [i \in 1..ExampleN |-> 10 + i - 1]

ExampleInput ==
    [n |-> ExampleN, a |-> ExampleCoefs, b |-> ExampleCoefs,
     P_tot |-> 1, W_tot |-> 2]

SmallInputs ==
    [n : 0..MaxLen, a : VectorsUpTo(MaxLen, Coefs), b : VectorsUpTo(MaxLen, Coefs),
     P_tot : Totals, W_tot : Totals]

Inputs == SmallInputs \cup {ExampleInput}

----------------------------------------------------------------------------
(* The state machine *)

Init ==
    /\ \E in \in Inputs :
        /\ nArg = in.n
        /\ a_val = in.a
        /\ b_val = in.b
        /\ P_tot = in.P_tot
        /\ W_tot = in.W_tot
    /\ n = nArg
    /\ pc = "l58"
    /\ prob = NoProblem
    /\ solveCalls = 0
    /\ stdout = <<>>
    /\ ret = NotReturned

\* line 58
AssignN ==
    /\ pc = "l58"
    /\ n' = LocalN(nArg, a_val)
    /\ pc' = "l59"
    /\ UNCHANGED <<nArg, a_val, b_val, P_tot, W_tot, prob, solveCalls, stdout, ret>>

\* lines 59-61
LengthMismatch ==
    /\ pc = "l59"
    /\ LengthsDiffer(n, b_val)
    /\ stdout' = stdout \o MismatchOutput
    /\ ret' = FailedResult
    /\ pc' = "done"
    /\ UNCHANGED <<nArg, a_val, b_val, P_tot, W_tot, n, prob, solveCalls>>

\* lines 59, 63-83
BuildProblem ==
    /\ pc = "l59"
    /\ ~LengthsDiffer(n, b_val)
    /\ prob' = Problem(n, a_val, b_val, P_tot, W_tot)
    /\ pc' = "l84"
    /\ UNCHANGED <<nArg, a_val, b_val, P_tot, W_tot, n, solveCalls, stdout, ret>>

\* line 84, the solver finds an optimum
SolveOptimal ==
    /\ pc = "l84"
    /\ prob' \in SolvedOptimal(prob)
    /\ solveCalls' = solveCalls + 1
    /\ pc' = "l86"
    /\ UNCHANGED <<nArg, a_val, b_val, P_tot, W_tot, n, stdout, ret>>

\* line 84, the solver finds the problem infeasible
SolveInfeasible ==
    /\ pc = "l84"
    /\ prob' \in SolvedInfeasible(prob)
    /\ solveCalls' = solveCalls + 1
    /\ pc' = "l86"
    /\ UNCHANGED <<nArg, a_val, b_val, P_tot, W_tot, n, stdout, ret>>

\* faulty variant: a failed solve is tried again
SolveFail_Retry ==
    /\ pc = "l84"
    /\ prob' = [prob EXCEPT !.status = "solver_error"]
    /\ solveCalls' = solveCalls + 1
    /\ pc' = "l84"
    /\ UNCHANGED <<nArg, a_val, b_val, P_tot, W_tot, n, stdout, ret>>

\* line 84, the solver fails and yields no value
SolveFail ==
    /\ pc = "l84"
    /\ prob' = [prob EXCEPT !.status = "solver_error"]
    /\ solveCalls' = solveCalls + 1
    /\ pc' = "l86"
    /\ UNCHANGED <<nArg, a_val, b_val, P_tot, W_tot, n, stdout, ret>>

\* line 86, prob.value is a number or an infinity
ReturnResult ==
    /\ pc = "l86"
    /\ prob.value.tag # "none"
    /\ ret' = Result(prob)
    /\ pc' = "done"
    /\ UNCHANGED <<nArg, a_val, b_val, P_tot, W_tot, n, prob, solveCalls, stdout>>

\* line 86, prob.value is None: unary minus raises TypeError
RaiseTypeError ==
    /\ pc = "l86"
    /\ prob.value.tag = "none"
    /\ ret' = Raised("TypeError")
    /\ pc' = "raised"
    /\ UNCHANGED <<nArg, a_val, b_val, P_tot, W_tot, n, prob, solveCalls, stdout>>

\* lines 128-131, after the call has returned
CallerPrints ==
    /\ pc = "done"
    /\ stdout' = stdout \o CallerOutput
    /\ pc' = "printed"
    /\ UNCHANGED <<nArg, a_val, b_val, P_tot, W_tot, n, prob, solveCalls, ret>>

Next ==
    \/ AssignN
    \/ LengthMismatch
    \/ BuildProblem
    \/ SolveOptimal
    \/ SolveInfeasible
    \/ SolveFail
    \/ ReturnResult
    \/ RaiseTypeError
    \/ CallerPrints

Spec == Init /\ [][Next]_vars

\* the solver keeps its contract: it reports an optimum or infeasibility
NextIdeal ==
    \/ AssignN
    \/ LengthMismatch
    \/ BuildProblem
    \/ SolveOptimal
    \/ SolveInfeasible
    \/ ReturnResult
    \/ CallerPrints

SpecIdeal == Init /\ [][NextIdeal]_vars

----------------------------------------------------------------------------
(* What the claims speak about *)

\* optimal_power has ended by returning
HasReturned == pc \in {"done", "printed"}

\* optimal_power has ended, by returning or by raising
HasEnded == pc \in {"done", "raised", "printed"}

SameLength == Len(a_val) = Len(b_val)

\* what optimal_power itself wrote to standard output
ByFunction(e) == e.by = "optimal_power"
OwnOutput == SelectSeq(stdout, ByFunction)

\* all entries of a vector are equal to one another
Identical(v) == \A i, j \in DOMAIN v : v[i] = v[j]

\* one unit of utility is 1/UtilityUnit
UtilityUnit == CoefDen * CoefDen * TotDen * Scale

\* the order of the extended reals
Rank(u) == IF u.tag = "neginf" THEN 0 ELSE IF u.tag = "num" THEN 1 ELSE 2
AtLeast(u2, u1) ==
    \/ Rank(u2) > Rank(u1)
    \/ Rank(u2) = Rank(u1) /\ (u1.tag = "num" => u2.v >= u1.v)

\* the utility a call returns when the solver keeps its contract
ReturnedUtility(a, b, ptot, wtot) ==
    LET pr == Problem(LocalN(0, a), a, b, ptot, wtot)
        solved == SolvedOptimal(pr) \cup SolvedInfeasible(pr)
    IN  Negated((CHOOSE q \in solved : TRUE).value)

\* Scale * log2(num/den) for num >= den > 0 and num/den < 8
Log2Fix(num, den) ==
    LET l == LnFix(num, den) * 1000
        ln2 == LnFix(2, 1)
    IN  (l \div ln2) * 1000 + ((l % ln2) * 1000) \div ln2

\* alpha_i W_i log2(1 + beta_i P_i / W_i) in units of 1/UtilityUnit
BitRate(a, b, p, w) ==
    IF w = 0 THEN 0
    ELSE a * CoefDen * w * Log2Fix(CoefDen * w + b * p, CoefDen * w)

RECURSIVE TotalBitRate(_, _, _, _, _)
TotalBitRate(alpha, beta, P, W, i) ==
    IF i = 0 THEN 0
    ELSE BitRate(alpha[i], beta[i], P[i], W[i])
         + TotalBitRate(alpha, beta, P, W, i - 1)

Abs(x) == IF x >= 0 THEN x ELSE 0 - x

IsExample ==
    /\ nArg = ExampleN
    /\ a_val = ExampleCoefs
    /\ b_val = ExampleCoefs
    /\ P_tot = 1
    /\ W_tot = 2

----------------------------------------------------------------------------
(* C1: whenever len(a_val) differs from len(b_val), whatever n, P_tot and  *)
(* W_tot are, the call ends by returning ('failed', nan, nan, nan); it     *)
(* never raises and never goes on to build or solve a problem.             *)
C1_MismatchReturnsFailed ==
    (~SameLength /\ pc \notin {"l58", "l59"}) =>
        /\ HasReturned
        /\ ret = [kind |-> "return", status |-> "failed",
                  utility |-> [tag |-> "nan", v |-> 0],
                  P |-> [tag |-> "nan", v |-> <<>>],
                  W |-> [tag |-> "nan", v |-> <<>>]]

C1_Witness ==
    /\ pc = "done"
    /\ Len(a_val) = 2 /\ Len(b_val) = 1 /\ nArg = 1
    /\ P_tot = 2 /\ W_tot = 0
    /\ ret.status = "failed"

C3_StatusSurfaced ==
    (HasEnded /\ SameLength) =>
        /\ ret.kind = "return"
        /\ ret.status = prob.status

(* C4, as stated: optimal_power writes nothing to standard output on any   *)
(* path; all printing is the caller's.                                     *)
C4_Original == OwnOutput = <<>>

(* C4, amended: on the equal-length path optimal_power writes nothing; on  *)
(* the length-mismatch path it writes exactly one line, the message        *)
(* 'alpha and beta vectors must have same length!', and builds no problem. *)
C4_Amended ==
    /\ SameLength => OwnOutput = <<>>
    /\ (~SameLength /\ HasEnded) =>
          /\ OwnOutput = << [by |-> "optimal_power",
                             text |-> "alpha and beta vectors must have same length!"] >>
          /\ ~prob.built
    /\ Len(OwnOutput) <= 1

C4_Witness ==
    /\ pc = "printed"
    /\ ~SameLength
    /\ Len(stdout) = 5
    /\ stdout[1].by = "optimal_power"
    /\ stdout[2].by = "caller"

(* C5: the returned utility is the negated minimum, and it is the total    *)
(* bit rate sum_i alpha_i W_i log2(1 + beta_i P_i / W_i) at the returned   *)
(* allocation, the logarithm taken to base 2 (to within 1e-4).             *)
C5_UtilityIsBitRate ==
    (HasReturned /\ ret.status = "optimal") =>
        /\ ret.utility = [tag |-> "num", v |-> 0 - prob.value.v]
        /\ Abs(ret.utility.v
               - TotalBitRate(a_val, b_val, ret.P.v, ret.W.v, Len(a_val)))
              <= UtilityUnit \div 10000

(* C6, as stated: with all alpha_i equal and all beta_i equal, the         *)
(* returned allocation is the equal split P_i = P_tot/n, W_i = W_tot/n     *)
(* (here for positive totals that n divides).                              *)
C6_Original ==
    (HasReturned /\ ret.status = "optimal" /\ Len(a_val) >= 1
     /\ Identical(a_val) /\ Identical(b_val)
     /\ P_tot > 0 /\ W_tot > 0
     /\ P_tot % Len(a_val) = 0 /\ W_tot % Len(a_val) = 0) =>
        \A i \in 1..Len(a_val) :
            /\ ret.P.v[i] * Len(a_val) = P_tot
            /\ ret.W.v[i] * Len(a_val) = W_tot

(* C6, amended: with all alpha_i equal and all beta_i equal, the equal     *)
(* split attains the optimal utility that is returned; it need not be the  *)
(* allocation that is returned.                                            *)
C6_Amended ==
    (HasReturned /\ ret.status = "optimal" /\ Len(a_val) >= 1
     /\ Identical(a_val) /\ Identical(b_val)
     /\ P_tot % Len(a_val) = 0 /\ W_tot % Len(a_val) = 0) =>
        LET EqualP == [i \in 1..Len(a_val) |-> P_tot \div Len(a_val)]
            EqualW == [i \in 1..Len(a_val) |-> W_tot \div Len(a_val)]
        IN  /\ ret.utility.tag = "num"
            /\ ret.utility.v = 0 - SumR(a_val, b_val, EqualP, EqualW, Len(a_val))

C6_Witness ==
    /\ pc = "done"
    /\ ret.status = "optimal"
    /\ Len(a_val) = 2
    /\ Identical(a_val) /\ Identical(b_val)
    /\ P_tot = 2 /\ W_tot = 2
    /\ ret.P.v = <<2, 0>> /\ ret.W.v = <<2, 0>>
    /\ ret.utility.v > 0

(* C7: for fixed equal-length a_val, b_val and fixed positive W_tot, a     *)
(* call with a larger positive P_tot returns a utility at least as large.  *)
C7_Monotone ==
    (pc = "done" /\ SameLength /\ P_tot > 0 /\ W_tot > 0) =>
        \A p2 \in (P_tot + 1)..MaxTot :
            AtLeast(ReturnedUtility(a_val, b_val, p2, W_tot), ret.utility)

C7_Witness ==
    /\ pc = "done"
    /\ Len(a_val) = 2 /\ Len(b_val) = 2
    /\ P_tot = 1 /\ W_tot = 1
    /\ ret.status = "optimal"
    /\ ReturnedUtility(a_val, b_val, P_tot + 1, W_tot).v > ret.utility.v

(* C8: for the worked example the call returns 'optimal', a utility that   *)
(* prints as 2.451, and the whole of P_tot and W_tot on the last channel   *)
(* with nothing on the first four.                                         *)
C8_Example ==
    (HasReturned /\ IsExample) =>
        /\ ret.status = "optimal"
        /\ ret.utility.tag = "num"
        /\ ret.utility.v >= 24505 * (UtilityUnit \div 10000)
        /\ ret.utility.v < 24515 * (UtilityUnit \div 10000)
        /\ ret.P = [tag |-> "array", v |-> <<0, 0, 0, 0, 1>>]
        /\ ret.W = [tag |-> "array", v |-> <<0, 0, 0, 0, 2>>]

C8_Witness ==
    /\ pc = "printed"
    /\ IsExample
    /\ ret.status = "optimal"
    /\ ret.P.v[5] = P_tot

(* C9: the value passed for n has no effect: after line 58 the local n is  *)
(* len(a_val), the path taken depends only on the two lengths, the problem *)
(* built has len(a_val) channels, and a call whose n differs from          *)
(* len(a_val) = len(b_val) is not rejected.                                *)
C9_NIgnored ==
    /\ pc # "l58" => n = Len(a_val)
    /\ pc \notin {"l58", "l59"} =>
          IF SameLength
          THEN /\ prob.built
               /\ prob.shape = Len(a_val)
               /\ prob.alpha = a_val /\ prob.beta = b_val
               /\ prob.P_tot = P_tot /\ prob.W_tot = W_tot
               /\ ret.status # "failed"
          ELSE /\ ~prob.built
               /\ ret.status = "failed"

C9_Witness ==
    /\ pc = "done"
    /\ nArg = 0
    /\ Len(a_val) = 2 /\ Len(b_val) = 2
    /\ ret.status = "optimal"

(* C10: the length check comes before any construction: on the mismatch    *)
(* path no problem is built and the solver is never invoked; on the        *)
(* equal-length path the solver is invoked exactly once, whatever it       *)
(* reports, and the call ends only after that invocation.                  *)
C10_SolveOnce ==
    /\ solveCalls <= 1
    /\ prob.built => (SameLength /\ pc \notin {"l58", "l59"})
    /\ ~SameLength => (solveCalls = 0 /\ ~prob.built)
    /\ solveCalls = 1 => (prob.built /\ prob.status \notin {"none", "unsolved"})
    /\ (HasEnded /\ SameLength) => solveCalls = 1

C10_Witness ==
    /\ pc = "done"
    /\ SameLength /\ Len(a_val) = 1
    /\ solveCalls = 1
    /\ prob.status = "infeasible" \/ prob.status = "optimal"

====
